---- MODULE Spec2Model ----
(***************************************************************************)
(* The pump supervisor of lbis_discord: the inflate / inflate_debt starts, *)
(* the timed and banked pump loops with their shared cleanup, the manual   *)
(* pump commands, the latch, the liveness probe and the 1-second session   *)
(* timer, as they interleave on one asyncio event loop.                    *)
(*                                                                         *)
(* Time is counted in tenths of a second (the clock of loop.time()).       *)
(* Every await that really suspends (an HTTP request to the device, an     *)
(* asyncio.sleep) ends an action: an action is the code a coroutine runs   *)
(* between two suspension points.                                          *)
(***************************************************************************)
EXTENDS Integers, Sequences, FiniteSets, TLC

\* ---------------------------------------------------------------- constants
TimedPoll == 5
BankedPoll == 2
ManualWait == 1
\* one second, in clock units
SEC == 2 * TimedPoll

\* configuration (bot.json), scaled down to seconds the model can run through
max_pump_duration == 2
max_banked_time == 1
max_session_time == 3

\* bounds of the model
MaxTasks == 2
MaxPending == 2
MaxApiDelay == 0
MaxTime == 26
MaxCmds == 2
MaxTimers == 2
MaxTempFiles == 2
\* the clock value up to which a run may be started or extended where every run
\* has to end within MaxTime
LastStart == 0

None == 0 - 1
NoTask == 0
TaskIds == 1..MaxTasks
NoTimer == 0
TimerIds == 1..MaxTimers
\* pump levels 0.0 and 1.0, in tenths
Levels == {0, SEC}
\* the seconds a caller may pass to inflate / inflate_debt
SecondsArgs == 0..(max_pump_duration + 1)
\* the session timer's first run against the clock: off and on the polls' grid
TickPhases == {3, SEC}
\* the minutes a caller may pass to session add / rem / set
MinutesArgs == (0 - 1)..1
\* the intensities a caller may pass to pump intensity: below 0.0, 0.0, 1.0, above
IntensityArgs == {0 - 1, 0, SEC, SEC + 1}
\* the reasons and the durations (seconds) a caller may pass to the latch commands
ReasonArgs == {None, 1}
DurationArgs == {None, 0, 1}
\* DEFAULT_CONFIG's wearer_secret, 'changeme', and a secret the owner has set
Changeme == 0
Secrets == {Changeme, 1}
\* the Discord users who issue commands
Users == {1, 2}
\* the seconds a caller may pass to bank add / rem / set
BankArgs == (0 - 1)..(max_banked_time + 1)

Min(a, b) == IF a <= b THEN a ELSE b
Max(a, b) == IF a >= b THEN a ELSE b
\* Python's int() of a non-negative duration held in clock units: whole seconds
IntSeconds(d) == d \div SEC

VARIABLES
  now,                     \* asyncio.get_event_loop().time()
  session_time_remaining,  \* bot.session_time_remaining (seconds)
  banked_time,             \* bot.banked_time (seconds)
  latch_active,            \* bot.latch_active
  service_was_up,          \* bot.service_was_up
  pump_intensity,          \* bot.pump_intensity
  pump_task,               \* bot.pump_task: a task id, or NoTask
  pump_task_end_time,      \* bot.pump_task_end_time: a clock value, or None
  tasks,                   \* the pump loop tasks created so far
  pending,                 \* command handlers suspended in an await
  pump_level,              \* the level the device last accepted
  tick_at,                 \* when MonitorCog.session_timer runs next
  disk,                    \* session.json: the snapshot StateManager saved last
  latch_reason,            \* bot.latch_reason: a reason, or None
  latch_end_time,          \* bot.latch_end_time: a clock value, or None
  latch_timer,             \* bot.latch_timer: a timer id, or NoTimer
  timers,                  \* the auto_unlatch tasks created so far
  save_pc,                 \* where StateManager.save_state stands
  temp_path,               \* save_state: whether its local temp_path is bound
  temp_files,              \* the temporary files in the state file's directory
  file_intact,             \* whether session.json holds a complete JSON document
  config,                  \* bot.config: the keys of bot.json the commands read
  last_pump_time,          \* whether bot.last_pump_time is set
  pump_status,             \* the Pump field of the last /admin status answer
  api_pump_state,          \* what get_api_pump_state returned last
  budget                   \* commands and probes the environment may still issue

\* the program's state, and with it the environment's budget
\* the latch's reason, expiry and timer
latch_state == <<latch_reason, latch_end_time, latch_timer, timers>>
\* a save in progress and the files it works on
file_state == <<save_pc, temp_path, temp_files, file_intact>>
\* the configuration, and what the bot last learnt from and about the device
admin_state == <<config, last_pump_time, pump_status, api_pump_state>>

prog == <<now, session_time_remaining, banked_time, latch_active, service_was_up,
          pump_intensity, pump_task, pump_task_end_time, tasks, pending,
          pump_level, tick_at, disk, latch_state, file_state, admin_state>>
vars == <<prog, budget>>

\* ------------------------------------------------------------------- state
\* a bot.json whose owner has set a secret and is bound as the wearer, with no
\* default_session_time key (DEFAULT_CONFIG has none)
Configured == [wearer_secret |-> 1, wearer_id |-> 1, default_session_time |-> None]

NoTaskRec == [pc |-> "none", mode |-> "none", start_time |-> 0, wake |-> 0,
              cancel |-> FALSE, last_decrement_time |-> 0,
              decremented_bank |-> 0, decremented_session |-> 0,
              consumed |-> 0, sent |-> 0, raised |-> FALSE,
              initial_run_seconds |-> 0, interruption_reason |-> "",
              \* for the claims: session_time_remaining when the task was created, and
              \* whether the latch was engaged since the task last polled
              session_at_start |-> 0, latched |-> FALSE,
              \* for the claims: the level of a pump on / pump off that was issued
              \* while the task was live and is the last command the device took
              manual_level |-> None]

\* asyncio.Task.done(): the coroutine returned, raised, or was cancelled
Finished == {"done", "failed", "cancelled", "never_ran"}
TaskDone(t) == tasks[t].pc \in Finished
\* a task from its creation until it has ended
Live(t) == tasks[t].pc \in {"new", "sleep", "cleanup"}
\* `bot.pump_task and not bot.pump_task.done()`
TaskRunning == pump_task # NoTask /\ ~TaskDone(pump_task)

EndedRec(pc) == [NoTaskRec EXCEPT !.pc = pc]

\* bot.default_session_time: StateManager's default, which load_session_state
\* takes from the configured max_session_time; nothing assigns it afterwards
default_session_time == max_session_time

\* StateManager.state: the persisted keys that the accounting and the latch use
Snapshot(session, banked, latch, reason, end_time) ==
  [session_time_remaining |-> session, banked_time |-> banked, latch_active |-> latch,
   latch_reason |-> reason, latch_end_time |-> end_time,
   default_session_time |-> default_session_time]

\* save_session_state(bot) at the end of a step: StateManager.update_and_save
\* copies the bot's attributes as they are now and replaces the file
save_session_state ==
  disk' = Snapshot(session_time_remaining', banked_time', latch_active',
                   latch_reason', latch_end_time')

\* an auto_unlatch task
NoTimerRec == [pc |-> "none", wake |-> 0,
               \* for the claims: a latch off or toggle unlatched since the latch
               \* on that armed this timer was issued
               unlatched |-> FALSE,
               \* for the claims: a later latch on was issued since the latch on
               \* that armed this timer
               superseded |-> FALSE]

Init ==
  /\ now = 0
  /\ session_time_remaining \in 0..max_session_time
  /\ banked_time \in 0..max_banked_time
  /\ latch_active = FALSE
  /\ service_was_up = TRUE
  /\ pump_intensity = SEC
  /\ pump_task = NoTask
  /\ pump_task_end_time = None
  /\ tasks = [t \in TaskIds |-> NoTaskRec]
  /\ pending = <<>>
  /\ pump_level = 0
  /\ tick_at \in TickPhases
  /\ latch_reason = None
  /\ latch_end_time = None
  /\ latch_timer = NoTimer
  /\ timers = [k \in TimerIds |-> NoTimerRec]
  /\ disk = Snapshot(session_time_remaining, banked_time, latch_active,
                     latch_reason, latch_end_time)
  /\ save_pc = "idle"
  /\ temp_path = FALSE
  /\ temp_files = 0
  /\ file_intact = TRUE
  /\ config = Configured
  /\ last_pump_time = FALSE
  /\ pump_status = "none"
  /\ api_pump_state = "none"
  /\ budget = MaxCmds

\* ------------------------------------------------------- suspended handlers
\* A handler that has sent setPumpState and awaits the reply.
Req(kind, level, run_seconds, current_time) ==
  [kind |-> kind, stage |-> "api", level |-> level, run_seconds |-> run_seconds,
   current_time |-> current_time, sent |-> now, wake |-> 0,
   interaction |-> TRUE, task |-> NoTask, was_previously_up |-> TRUE,
   duration |-> None, unlatched |-> FALSE, superseded |-> FALSE]

\* _send_pump_state_api after it cancelled the task: in asyncio.sleep(0.1)
Sleeper(level) ==
  [kind |-> "manual", stage |-> "sleep", level |-> level, run_seconds |-> 0,
   current_time |-> 0, sent |-> 0, wake |-> now + ManualWait,
   interaction |-> TRUE, task |-> NoTask, was_previously_up |-> TRUE,
   duration |-> None, unlatched |-> FALSE, superseded |-> FALSE]

Remove(seq, i) == SubSeq(seq, 1, i - 1) \o SubSeq(seq, i + 1, Len(seq))

Starts == {i \in 1..Len(pending) : pending[i].kind \in {"timed", "banked"}}
Used == {t \in TaskIds : tasks[t].pc # "none"}
\* the model's bounds on what is in flight
CanSend == Len(pending) < MaxPending
CanStart == CanSend /\ Cardinality(Used) + Cardinality(Starts) < MaxTasks
FreeTask == CHOOSE t \in TaskIds : tasks[t].pc = "none" /\ \A u \in 1..(t - 1) : tasks[u].pc # "none"

\* ------------------------------------------------------------- accounting
\* a session update that does not stop at zero
update_session_time_unclamped(delta_seconds) == session_time_remaining + delta_seconds

\* utils.session_management.update_session_time
update_session_time(delta_seconds) == Max(0, session_time_remaining + delta_seconds)

\* a deposit that rounds a begun second up instead of dropping it
BankDepositRoundedUp(old_banked, x) ==
  Min(old_banked + ((x + SEC - 1) \div SEC), max_banked_time)

\* `bot.banked_time = min(old_banked + int(x), max_bank)`, x in clock units
BankDeposit(old_banked, x) == Min(old_banked + IntSeconds(x), max_banked_time)

\* an extension limited by the session time only, not by max_pump_duration
ExtensionGrantUncapped(remaining_current, seconds) ==
  LET max_possible_additional == Max(0, session_time_remaining * SEC - remaining_current)
  IN  Min(max_possible_additional, seconds * SEC)

\* _start_timed_pump, the extension branch: time_to_add, in clock units
ExtensionGrant(remaining_current, seconds) ==
  LET max_possible_additional == Max(0, session_time_remaining * SEC - remaining_current)
      effective_max_duration_for_extension ==
        Min(remaining_current + max_possible_additional, max_pump_duration * SEC)
      time_to_add == Max(0, effective_max_duration_for_extension - remaining_current)
  IN  Min(time_to_add, seconds * SEC)

\* ------------------------------------------------------------ inflate
\* PumpCog.inflate -> _start_timed_pump, up to its first suspension
Inflate(seconds) ==
  IF seconds <= 0 \/ seconds > max_pump_duration \/ latch_active \/ ~service_was_up
  THEN UNCHANGED prog
  ELSE IF TaskRunning
  THEN LET remaining_current == Max(0, pump_task_end_time - now)
           time_to_add == ExtensionGrant(remaining_current, seconds)
           overflow == Max(0, seconds * SEC - time_to_add)
       IN  /\ banked_time' = IF overflow > 0 THEN BankDeposit(banked_time, overflow)
                                             ELSE banked_time
           /\ pump_task_end_time' = now + remaining_current + time_to_add
           /\ UNCHANGED <<now, latch_state, file_state, admin_state, session_time_remaining, latch_active, service_was_up,
                          pump_intensity, pump_task, tasks, pending, pump_level,
                          tick_at>>
           /\ IF banked_time' > banked_time THEN save_session_state ELSE UNCHANGED disk
  ELSE IF session_time_remaining <= 0
  THEN UNCHANGED prog
  ELSE LET run_seconds == Min(seconds, session_time_remaining)
       IN  /\ CanStart
           /\ pending' = Append(pending, Req("timed", pump_intensity, run_seconds, now))
           /\ UNCHANGED <<now, latch_state, file_state, admin_state, session_time_remaining, banked_time, latch_active,
                          service_was_up, pump_intensity, pump_task, pump_task_end_time,
                          tasks, pump_level, tick_at, disk>>

\* PumpCog.inflate_debt -> _start_banked_pump, up to its first suspension
InflateDebt(seconds) ==
  IF \/ seconds <= 0 \/ latch_active \/ ~service_was_up \/ TaskRunning
     \/ banked_time <= 0 \/ session_time_remaining <= 0
  THEN UNCHANGED prog
  ELSE LET run_seconds == Min(Min(seconds, banked_time),
                              Min(session_time_remaining, max_pump_duration))
       IN  /\ CanStart
           /\ pending' = Append(pending, Req("banked", pump_intensity, run_seconds, now))
           /\ UNCHANGED <<now, latch_state, file_state, admin_state, session_time_remaining, banked_time, latch_active,
                          service_was_up, pump_intensity, pump_task, pump_task_end_time,
                          tasks, pump_level, tick_at, disk>>

\* (for the claims) the device took the command of handler r: the tasks
\* remember the level of a pump on / pump off issued while they were live, and
\* forget it at any other command
Overridden(r) ==
  [t \in TaskIds |->
     [tasks[t] EXCEPT !.manual_level =
        IF r.kind = "manual" /\ r.interaction /\ r.task = t /\ Live(t)
        THEN r.level ELSE None]]

\* The end time a start records once the device has answered: _start_timed_pump
\* uses the clock it read before the request, _start_banked_pump reads it anew.
StartEndTime(r) ==
  IF r.kind = "timed" THEN r.current_time + r.run_seconds * SEC
                      ELSE now + r.run_seconds * SEC

\* a start that creates its task whatever the device answered
StartReplyUnchecked(i, ok) ==
  /\ i \in Starts
  /\ pending' = Remove(pending, i)
  /\ pump_level' = IF ok THEN pending[i].level ELSE pump_level
  /\ pump_task_end_time' = StartEndTime(pending[i])
  /\ pump_task' = FreeTask
  /\ tasks' = [Overridden(pending[i]) EXCEPT ![FreeTask] =
                 [NoTaskRec EXCEPT !.pc = "new", !.mode = pending[i].kind,
                                   !.initial_run_seconds = pending[i].run_seconds,
                                   !.session_at_start = session_time_remaining]]
  /\ last_pump_time' = (ok \/ last_pump_time)
  /\ UNCHANGED <<now, latch_state, file_state, config, pump_status, api_pump_state,
                 session_time_remaining, banked_time,
                 latch_active, service_was_up, pump_intensity, tick_at, disk, budget>>

\* _start_timed_pump / _start_banked_pump resumed by the reply to setPumpState
StartReply(i, ok) ==
  /\ i \in Starts
  /\ pending' = Remove(pending, i)
  /\ IF ok
     THEN /\ pump_level' = pending[i].level
          /\ pump_task_end_time' = StartEndTime(pending[i])
          /\ pump_task' = FreeTask
          /\ tasks' = [Overridden(pending[i]) EXCEPT ![FreeTask] =
                         [NoTaskRec EXCEPT !.pc = "new", !.mode = pending[i].kind,
                                           !.initial_run_seconds = pending[i].run_seconds,
                                           !.session_at_start = session_time_remaining]]
     ELSE UNCHANGED <<pump_level, pump_task_end_time, pump_task, tasks>>
  /\ last_pump_time' = (ok \/ last_pump_time)
  /\ UNCHANGED <<now, latch_state, file_state, config, pump_status, api_pump_state,
                 session_time_remaining, banked_time, latch_active,
                 service_was_up, pump_intensity, tick_at, disk, budget>>

\* ------------------------------------------------------------ pump loops
\* The loop has ended (or raised) and `finally` calls _cleanup_pump_task, which
\* sends setPumpState 0 and waits for the reply.
EnterCleanup(t, r, consumed_session_time) ==
  tasks' = [tasks EXCEPT ![t] = [r EXCEPT !.pc = "cleanup", !.wake = 0, !.sent = now,
                                           !.consumed = consumed_session_time]]

\* _check_interruptions
Interrupted == latch_active \/ ~service_was_up
\* _check_interruptions: the reason it returns with True
InterruptionReason == IF latch_active THEN "latched" ELSE "service down"

\* One pass of `while loop.time() < bot.pump_task_end_time` in _timed_pump_loop,
\* with what follows the loop when it is left; r is the task's record.
TimedLoop(t, r) ==
  IF pump_task_end_time = None
  THEN \* the comparison raises TypeError: `finally` runs with actual_run_duration = 0
       /\ EnterCleanup(t, [r EXCEPT !.raised = TRUE], 0)
       /\ UNCHANGED <<banked_time, disk>>
  ELSE IF now >= pump_task_end_time
  THEN /\ EnterCleanup(t, r, IntSeconds(now - r.start_time))
       /\ UNCHANGED <<banked_time, disk>>
  ELSE IF Interrupted
  THEN LET remaining_intended == pump_task_end_time - now
       IN  /\ banked_time' = IF remaining_intended > 0
                             THEN BankDeposit(banked_time, remaining_intended)
                             ELSE banked_time
           /\ IF banked_time' > banked_time
              THEN disk' = Snapshot(session_time_remaining, banked_time', latch_active,
                                    latch_reason, latch_end_time)
              ELSE UNCHANGED disk
           /\ EnterCleanup(t, [r EXCEPT !.interruption_reason = InterruptionReason],
                           IntSeconds(now - r.start_time))
  ELSE /\ tasks' = [tasks EXCEPT ![t] = [r EXCEPT !.pc = "sleep", !.wake = now + TimedPoll]]
       /\ UNCHANGED <<banked_time, disk>>

\* One pass of the loop of _banked_pump_loop
BankedLoop(t, r) ==
  IF pump_task_end_time = None
  THEN /\ EnterCleanup(t, [r EXCEPT !.raised = TRUE], r.decremented_session)
       /\ UNCHANGED <<banked_time, disk>>
  ELSE IF \/ now >= pump_task_end_time \/ Interrupted
          \/ banked_time <= 0 \/ session_time_remaining <= 0
  THEN /\ EnterCleanup(t, [r EXCEPT !.interruption_reason =
                                IF now >= pump_task_end_time THEN ""
                                ELSE IF Interrupted THEN InterruptionReason
                                ELSE IF banked_time <= 0 THEN "bank empty"
                                ELSE "session empty"],
                       r.decremented_session)
       /\ UNCHANGED <<banked_time, disk>>
  ELSE LET elapsed_since_decrement == now - r.last_decrement_time
           decrement_amount == IntSeconds(elapsed_since_decrement)
           actual_decrement == Min(decrement_amount, Min(banked_time, session_time_remaining))
       IN  IF elapsed_since_decrement >= SEC
           THEN IF actual_decrement > 0
                THEN /\ banked_time' = banked_time - actual_decrement
                     /\ UNCHANGED disk
                     /\ tasks' = [tasks EXCEPT ![t] =
                          [r EXCEPT !.pc = "sleep", !.wake = now + BankedPoll,
                                    !.decremented_bank = @ + actual_decrement,
                                    !.decremented_session = @ + actual_decrement,
                                    !.last_decrement_time = now]]
                ELSE /\ EnterCleanup(t, [r EXCEPT !.interruption_reason =
                                              "bank or session empty on decrement"],
                                     r.decremented_session)
                     /\ UNCHANGED <<banked_time, disk>>
           ELSE /\ tasks' = [tasks EXCEPT ![t] = [r EXCEPT !.pc = "sleep", !.wake = now + BankedPoll]]
                /\ UNCHANGED <<banked_time, disk>>

Loop(t, r) == IF r.mode = "timed" THEN TimedLoop(t, r) ELSE BankedLoop(t, r)

\* The event loop runs the new task's first step. A task cancelled before that
\* step never enters its coroutine: no try, no finally.
TaskStart(t) ==
  /\ tasks[t].pc = "new"
  /\ IF tasks[t].cancel
     THEN /\ tasks' = [tasks EXCEPT ![t] = EndedRec("never_ran")]
          /\ UNCHANGED <<banked_time, disk>>
     ELSE Loop(t, [tasks[t] EXCEPT !.start_time = now, !.last_decrement_time = now])
  /\ UNCHANGED <<now, latch_state, file_state, admin_state, session_time_remaining, latch_active, service_was_up,
                 pump_intensity, pump_task, pump_task_end_time, pending, pump_level,
                 tick_at, budget>>

\* asyncio.sleep returns in the loop
TaskPoll(t) ==
  /\ tasks[t].pc = "sleep"
  /\ ~tasks[t].cancel
  /\ now >= tasks[t].wake
  /\ Loop(t, [tasks[t] EXCEPT !.latched = FALSE])
  /\ UNCHANGED <<now, latch_state, file_state, admin_state, session_time_remaining, latch_active, service_was_up,
                 pump_intensity, pump_task, pump_task_end_time, pending, pump_level,
                 tick_at, budget>>

\* CancelledError is raised at the await the task is suspended in. In the loop's
\* sleep `except asyncio.CancelledError` catches it and `finally` starts the
\* cleanup; in the cleanup's own await of api_request nothing catches it.
TaskCancelled(t) ==
  /\ tasks[t].cancel
  /\ \/ /\ tasks[t].pc = "sleep"
        /\ EnterCleanup(t, [tasks[t] EXCEPT !.cancel = FALSE,
                                            !.interruption_reason = "cancelled"],
                        IF tasks[t].mode = "timed"
                        THEN IntSeconds(now - tasks[t].start_time)
                        ELSE tasks[t].decremented_session)
        /\ UNCHANGED pump_level
     \/ /\ tasks[t].pc = "cleanup"
        /\ tasks' = [tasks EXCEPT ![t] = EndedRec("cancelled")]
        /\ pump_level' \in {pump_level, 0}
  /\ UNCHANGED <<now, latch_state, file_state, admin_state, session_time_remaining, banked_time, latch_active, service_was_up,
                 pump_intensity, pump_task, pump_task_end_time, pending, tick_at, disk,
                 budget>>

\* _cleanup_pump_task resumed by the reply to setPumpState 0
CleanupReply(t, ok) ==
  /\ tasks[t].pc = "cleanup"
  /\ ~tasks[t].cancel
  /\ pump_level' = IF ok THEN 0 ELSE pump_level
  /\ session_time_remaining' = IF tasks[t].consumed > 0
                               THEN update_session_time(0 - tasks[t].consumed)
                               ELSE session_time_remaining
  /\ pump_task' = NoTask
  /\ pump_task_end_time' = None
  /\ tasks' = [tasks EXCEPT ![t] = EndedRec(IF tasks[t].raised THEN "failed" ELSE "done")]
  /\ last_pump_time' = (ok \/ last_pump_time)
  /\ UNCHANGED <<now, latch_state, file_state, config, pump_status, api_pump_state,
                 banked_time, latch_active, service_was_up, pump_intensity,
                 pending, tick_at, budget>>
  /\ save_session_state

\* --------------------------------------------------------- manual commands
\* Task.cancel() on bot.pump_task
CancelPumpTask == [tasks EXCEPT ![pump_task].cancel = TRUE]

\* _send_pump_state_api up to its first suspension: a live task is cancelled only
\* for intensity 0.0, and then the helper sleeps 0.1 s before it sends. The
\* handler's record keeps whether it has an interaction to answer (pump on / off)
\* or none (pump intensity), and the task it found live.
SendPumpState(interaction, intensity) ==
  LET found == IF TaskRunning THEN pump_task ELSE NoTask
  IN  /\ CanSend
      /\ IF TaskRunning /\ intensity = 0
         THEN /\ tasks' = CancelPumpTask
              /\ pending' = Append(pending, [Sleeper(intensity) EXCEPT
                                               !.interaction = interaction, !.task = found])
         ELSE /\ pending' = Append(pending, [Req("manual", intensity, 0, 0) EXCEPT
                                               !.interaction = interaction, !.task = found])
              /\ UNCHANGED tasks

\* PumpGroup.pump_on
PumpOn ==
  /\ SendPumpState(TRUE, pump_intensity)
  /\ UNCHANGED <<now, latch_state, file_state, admin_state, session_time_remaining, banked_time, latch_active, service_was_up,
                 pump_intensity, pump_task, pump_task_end_time, pump_level, tick_at, disk>>

\* PumpGroup.pump_off
PumpOff ==
  /\ SendPumpState(TRUE, 0)
  /\ UNCHANGED <<now, latch_state, file_state, admin_state, session_time_remaining, banked_time, latch_active, service_was_up,
                 pump_intensity, pump_task, pump_task_end_time, pump_level, tick_at, disk>>

\* PumpGroup.pump_intensity
PumpIntensity(intensity) ==
  IF ~(0 <= intensity /\ intensity <= SEC)
  THEN UNCHANGED prog
  ELSE /\ pump_intensity' = intensity
       /\ IF TaskRunning THEN SendPumpState(FALSE, intensity)
                         ELSE UNCHANGED <<tasks, pending>>
       /\ UNCHANGED <<now, latch_state, file_state, admin_state, session_time_remaining, banked_time,
                      latch_active, service_was_up, pump_task, pump_task_end_time,
                      pump_level, tick_at>>
       /\ save_session_state

\* _send_pump_state_api: asyncio.sleep(0.1) returns and setPumpState is sent
ManualWake(i) ==
  /\ i \in 1..Len(pending)
  /\ pending[i].stage = "sleep"
  /\ now >= pending[i].wake
  /\ pending' = [pending EXCEPT ![i] = [@ EXCEPT !.stage = "api", !.sent = now, !.wake = 0]]
  /\ UNCHANGED <<now, latch_state, file_state, admin_state, session_time_remaining, banked_time, latch_active, service_was_up,
                 pump_intensity, pump_task, pump_task_end_time, tasks, pump_level,
                 tick_at, disk, budget>>

\* the auto_unlatch tasks that exist, and the record a new one takes
ArmedTimers == {k \in TimerIds : timers[k].pc # "none"}
FreeTimer == CHOOSE k \in TimerIds : timers[k].pc = "none"

\* toggle_latch resumed after its POST, `if duration is not None and duration > 0`
Timed(r) == r.kind = "latch" /\ r.duration # None /\ r.duration > 0

\* The device answers a manual command's, or latch on's, setPumpState (or the
\* request fails: for latch on that is a warning and nothing else). toggle_latch
\* then records the expiry and creates the auto_unlatch task, which starts its
\* sleep at once, and saves.
DirectReply(i, ok) ==
  /\ i \in 1..Len(pending)
  /\ pending[i].kind \in {"manual", "latch"}
  /\ pending[i].stage = "api"
  /\ pump_level' = IF ok THEN pending[i].level ELSE pump_level
  /\ pending' = Remove(pending, i)
  /\ tasks' = IF ok THEN Overridden(pending[i]) ELSE tasks
  /\ IF Timed(pending[i])
     THEN /\ Cardinality(ArmedTimers) < MaxTimers
          /\ latch_end_time' = now + pending[i].duration * SEC
          /\ latch_timer' = FreeTimer
          /\ timers' = [timers EXCEPT ![FreeTimer] =
                          [pc |-> "sleep", wake |-> now + pending[i].duration * SEC,
                           unlatched |-> pending[i].unlatched,
                           superseded |-> pending[i].superseded]]
     ELSE UNCHANGED <<latch_end_time, latch_timer, timers>>
  /\ last_pump_time' = ((ok /\ pending[i].kind = "manual") \/ last_pump_time)
  /\ UNCHANGED <<now, file_state, config, pump_status, api_pump_state,
                 session_time_remaining, banked_time, latch_active,
                 latch_reason, service_was_up, pump_intensity, pump_task,
                 pump_task_end_time, tick_at, budget>>
  /\ IF pending[i].kind = "latch" THEN save_session_state ELSE UNCHANGED disk

\* ------------------------------------------------------------------ latch
\* toggle_latch, `if bot.latch_timer:`: the pending auto_unlatch task is
\* cancelled (it ends in its sleep, nothing of it runs) and the expiry cleared
CancelLatchTimer ==
  /\ timers' = [k \in TimerIds |->
                  IF k = latch_timer THEN NoTimerRec
                  ELSE IF timers[k].pc = "sleep" THEN [timers[k] EXCEPT !.superseded = TRUE]
                  ELSE timers[k]]
  /\ latch_timer' = NoTimer

\* LatchGroup.latch_on -> toggle_latch(bot, True, reason, duration), up to its
\* POST: the latch is set before the device is told to stop
LatchOn(reason, duration) ==
  /\ CanSend
  /\ CancelLatchTimer
  /\ latch_end_time' = IF latch_timer # NoTimer THEN None ELSE latch_end_time
  /\ latch_active' = TRUE
  /\ latch_reason' = reason
  /\ pending' = Append([i \in 1..Len(pending) |->
                          IF pending[i].kind = "latch"
                          THEN [pending[i] EXCEPT !.superseded = TRUE] ELSE pending[i]],
                        [Req("latch", 0, 0, 0) EXCEPT !.duration = duration])
  /\ tasks' = [t \in TaskIds |-> IF tasks[t].pc = "sleep"
                                 THEN [tasks[t] EXCEPT !.latched = TRUE] ELSE tasks[t]]
  /\ UNCHANGED <<now, file_state, admin_state, session_time_remaining, banked_time, service_was_up,
                 pump_intensity, pump_task, pump_task_end_time, pump_level, tick_at,
                 disk>>

\* LatchGroup.latch_off -> toggle_latch(bot, False)
LatchOff ==
  /\ latch_active' = FALSE
  /\ latch_reason' = None
  /\ latch_end_time' = None
  /\ latch_timer' = NoTimer
  /\ timers' = [k \in TimerIds |->
                  IF k = latch_timer THEN NoTimerRec
                  ELSE IF timers[k].pc = "sleep" THEN [timers[k] EXCEPT !.unlatched = TRUE]
                  ELSE timers[k]]
  /\ pending' = [i \in 1..Len(pending) |->
                   IF pending[i].kind = "latch" THEN [pending[i] EXCEPT !.unlatched = TRUE]
                   ELSE pending[i]]
  /\ UNCHANGED <<now, file_state, admin_state, session_time_remaining, banked_time, service_was_up,
                 pump_intensity, pump_task, pump_task_end_time, tasks, pump_level,
                 tick_at>>
  /\ save_session_state

\* LatchGroup.latch_toggle
LatchToggle == IF latch_active THEN LatchOff ELSE LatchOn(None, None)

\* LatchGroup.latch_reason -> set_latch_reason
LatchReason(reason) ==
  IF ~latch_active
  THEN UNCHANGED prog
  ELSE /\ latch_reason' = reason
       /\ UNCHANGED <<now, file_state, admin_state, session_time_remaining, banked_time, latch_active,
                      latch_end_time, latch_timer, timers, service_was_up, pump_intensity,
                      pump_task, pump_task_end_time, tasks, pending, pump_level, tick_at>>
       /\ save_session_state

\* `if bot.config.get('wearer_id')`: a wearer is bound
wearer_id == config.wearer_id # None

\* auto_unlatch: asyncio.sleep(delay) returns
TimerFire(k) ==
  /\ timers[k].pc = "sleep"
  /\ now >= timers[k].wake
  /\ IF latch_timer # NoTimer
     THEN /\ latch_active' = FALSE
          /\ latch_timer' = NoTimer
          /\ latch_end_time' = None
          /\ latch_reason' = None
          /\ timers' = [timers EXCEPT ![k] = IF wearer_id THEN [@ EXCEPT !.pc = "notify"]
                                                          ELSE NoTimerRec]
          /\ UNCHANGED <<now, file_state, admin_state, session_time_remaining, banked_time,
                         service_was_up, pump_intensity, pump_task, pump_task_end_time,
                         tasks, pending, pump_level, tick_at, budget>>
          /\ save_session_state
     ELSE /\ timers' = [timers EXCEPT ![k] = NoTimerRec]
          /\ UNCHANGED <<now, file_state, admin_state, session_time_remaining, banked_time, latch_active,
                         latch_reason, latch_end_time, latch_timer, service_was_up,
                         pump_intensity, pump_task, pump_task_end_time, tasks, pending,
                         pump_level, tick_at, disk, budget>>

\* auto_unlatch resumed after fetch_user / wearer.send (sent or failed)
TimerNotified(k) ==
  /\ timers[k].pc = "notify"
  /\ timers' = [timers EXCEPT ![k] = NoTimerRec]
  /\ UNCHANGED <<now, file_state, admin_state, session_time_remaining, banked_time, latch_active,
                 latch_reason, latch_end_time, latch_timer, service_was_up, pump_intensity,
                 pump_task, pump_task_end_time, tasks, pending, pump_level, tick_at, disk,
                 budget>>

\* ---------------------------------------------------------------- monitor
\* `if self.bot.OWNER_ID`: a wearer is bound, so there is someone to notify
\* (save_wearer_id keeps bot.OWNER_ID equal to config['wearer_id'])
OWNER_ID == config.wearer_id # None

\* MonitorCog.service_monitor_task is suspended in none of its awaits: the loop
\* runs one iteration at a time
ProbeIdle == \A i \in 1..Len(pending) : pending[i].kind # "probe"

\* MonitorCog.service_monitor_task: an iteration begins, keeps the flag it found
\* and awaits GET /api/marco
ProbeStart ==
  /\ ProbeIdle
  /\ CanSend
  /\ pending' = Append(pending, [Req("probe", 0, 0, 0) EXCEPT
                                   !.was_previously_up = service_was_up])
  /\ UNCHANGED <<now, latch_state, file_state, admin_state, session_time_remaining, banked_time, latch_active, service_was_up,
                 pump_intensity, pump_task, pump_task_end_time, tasks, pump_level,
                 tick_at, disk>>

\* a probe that always reports a failure, whatever the flag was
NotifiesEveryFailure(up, was_previously_up) ==
  IF up THEN ~was_previously_up /\ OWNER_ID ELSE OWNER_ID

\* service_monitor_task: whether this outcome is reported to the wearer
Notifies(up, was_previously_up) ==
  IF up THEN ~was_previously_up /\ OWNER_ID ELSE was_previously_up /\ OWNER_ID

\* service_monitor_task resumed by the outcome of the GET: status 200 (up), or
\* anything else. On 200 the flag is set before the wearer is told; on a failure
\* the wearer is told first and the flag is cleared after that.
ProbeReply(i, up) ==
  /\ i \in 1..Len(pending)
  /\ pending[i].kind = "probe" /\ pending[i].stage = "api"
  /\ IF Notifies(up, pending[i].was_previously_up)
     THEN /\ pending' = [pending EXCEPT ![i].stage = IF up THEN "dm_up" ELSE "dm_down"]
          /\ service_was_up' = IF up THEN TRUE ELSE service_was_up
     ELSE /\ pending' = Remove(pending, i)
          /\ service_was_up' = up
  /\ UNCHANGED <<now, latch_state, file_state, admin_state, session_time_remaining, banked_time, latch_active, pump_intensity,
                 pump_task, pump_task_end_time, tasks, pump_level, tick_at, disk, budget>>

\* service_monitor_task resumed after fetch_user / wearer.send (sent or failed)
ProbeNotified(i) ==
  /\ i \in 1..Len(pending)
  /\ pending[i].kind = "probe" /\ pending[i].stage \in {"dm_up", "dm_down"}
  /\ pending' = Remove(pending, i)
  /\ service_was_up' = (pending[i].stage = "dm_up")
  /\ UNCHANGED <<now, latch_state, file_state, admin_state, session_time_remaining, banked_time, latch_active, pump_intensity,
                 pump_task, pump_task_end_time, tasks, pump_level, tick_at, disk, budget>>

\* a session timer that counts down whether or not a pump task is running
SessionTimerUnconditional ==
  /\ now = tick_at
  /\ tick_at' = now + SEC
  /\ session_time_remaining' =
       IF service_was_up /\ session_time_remaining > 0
       THEN update_session_time(0 - 1)
       ELSE session_time_remaining
  /\ UNCHANGED <<now, latch_state, file_state, admin_state, banked_time, latch_active, service_was_up,
                 pump_intensity, pump_task, pump_task_end_time, tasks, pending,
                 pump_level, disk, budget>>

\* MonitorCog.session_timer, every second
SessionTimer ==
  /\ now = tick_at
  /\ tick_at' = now + SEC
  /\ session_time_remaining' =
       IF service_was_up /\ TaskRunning /\ session_time_remaining > 0
       THEN update_session_time(0 - 1)
       ELSE session_time_remaining
  /\ UNCHANGED <<now, latch_state, file_state, admin_state, banked_time, latch_active, service_was_up, pump_intensity,
                 pump_task, pump_task_end_time, tasks, pending, pump_level, disk, budget>>

\* ------------------------------------------------------- session commands
\* SessionGroup.rem
SessionRem(minutes) ==
  /\ session_time_remaining' = IF minutes <= 0 THEN session_time_remaining
                               ELSE Max(0, session_time_remaining - minutes * 60)
  /\ UNCHANGED <<now, latch_state, file_state, admin_state, banked_time, latch_active, service_was_up, pump_intensity,
                 pump_task, pump_task_end_time, tasks, pending, pump_level, tick_at>>
  /\ IF minutes <= 0 THEN UNCHANGED disk ELSE save_session_state

\* SessionGroup.set
SessionSet(minutes) ==
  /\ session_time_remaining' = IF minutes < 0 THEN session_time_remaining
                               ELSE Min(minutes * 60, max_session_time)
  /\ UNCHANGED <<now, latch_state, file_state, admin_state, banked_time, latch_active, service_was_up, pump_intensity,
                 pump_task, pump_task_end_time, tasks, pending, pump_level, tick_at>>
  /\ IF minutes < 0 THEN UNCHANGED disk ELSE save_session_state

\* SessionGroup.add
SessionAdd(minutes) ==
  LET current_time == session_time_remaining
      time_to_add == minutes * 60
      new_time == Min(current_time + time_to_add, max_session_time)
      actual_added == new_time - current_time
  IN  IF minutes <= 0 \/ (actual_added <= 0 /\ time_to_add > 0)
      THEN UNCHANGED prog
      ELSE /\ session_time_remaining' = new_time
           /\ UNCHANGED <<now, latch_state, file_state, admin_state, banked_time, latch_active, service_was_up, pump_intensity,
                          pump_task, pump_task_end_time, tasks, pending, pump_level,
                          tick_at>>
           /\ save_session_state

\* ----------------------------------------------------------- bank commands
\* what a bank command leaves alone
BankFrame ==
  UNCHANGED <<now, latch_state, file_state, admin_state, session_time_remaining, latch_active, service_was_up, pump_intensity,
              pump_task, pump_task_end_time, tasks, pending, pump_level, tick_at>>

\* BankGroup.add
BankAdd(seconds) ==
  IF seconds <= 0
  THEN UNCHANGED prog
  ELSE /\ banked_time' = Min(banked_time + seconds, max_banked_time)
       /\ BankFrame
       /\ save_session_state

\* a bank rem that does not look at the sign of its argument
BankRemUnchecked(seconds) ==
  /\ banked_time' = Max(0, banked_time - seconds)
  /\ BankFrame
  /\ save_session_state

\* BankGroup.rem
BankRem(seconds) ==
  IF seconds <= 0
  THEN UNCHANGED prog
  ELSE /\ banked_time' = Max(0, banked_time - seconds)
       /\ BankFrame
       /\ save_session_state

\* a bank set that stores the caller's seconds as they are
BankSetUncapped(seconds) ==
  IF seconds < 0
  THEN UNCHANGED prog
  ELSE /\ banked_time' = seconds
       /\ BankFrame
       /\ save_session_state

\* BankGroup.set
BankSet(seconds) ==
  IF seconds < 0
  THEN UNCHANGED prog
  ELSE /\ banked_time' = Min(seconds, max_banked_time)
       /\ BankFrame
       /\ save_session_state

\* BankGroup.reset
BankReset ==
  /\ banked_time' = 0
  /\ BankFrame
  /\ save_session_state

\* ------------------------------------------------------------------ clock
\* The instants at which the event loop has something to run: a sleep that is
\* over, the session timer, and a request to the device timing out (a request is
\* answered within MaxApiDelay).
Deadlines ==
  {tasks[t].wake : t \in {u \in TaskIds : tasks[u].pc = "sleep"}}
  \cup {tasks[t].sent + MaxApiDelay : t \in {u \in TaskIds : tasks[u].pc = "cleanup"}}
  \cup {pending[i].wake : i \in {k \in 1..Len(pending) : pending[k].stage = "sleep"}}
  \cup {pending[i].sent + MaxApiDelay : i \in {k \in 1..Len(pending) : pending[k].stage = "api"}}
  \cup {timers[k].wake : k \in {j \in TimerIds : timers[j].pc = "sleep"}}
  \cup {tick_at}

\* A step that is ready to run is run before the clock moves on.
Ready ==
  \/ \E t \in TaskIds : \/ tasks[t].pc = "new"
                        \/ tasks[t].pc \in {"sleep", "cleanup"} /\ tasks[t].cancel
  \/ \E d \in Deadlines : d <= now

\* The clock moves on to the next instant at which the event loop wakes up.
Tick ==
  /\ ~Ready
  /\ now' = CHOOSE d \in Deadlines : \A e \in Deadlines : d <= e
  /\ now' <= MaxTime
  /\ UNCHANGED <<session_time_remaining, banked_time, latch_active, service_was_up,
                 pump_intensity, pump_task, pump_task_end_time, tasks, pending,
                 pump_level, tick_at, disk, latch_state, file_state, admin_state, budget>>

\* A command arrives from Discord, or the probe's period is over
Issue(command) == budget > 0 /\ budget' = budget - 1 /\ command

Next ==
  \/ \E seconds \in SecondsArgs : Issue(Inflate(seconds))
  \/ \E seconds \in SecondsArgs : Issue(InflateDebt(seconds))
  \/ \E i \in 1..Len(pending), ok \in BOOLEAN : StartReply(i, ok)
  \/ \E t \in TaskIds : TaskStart(t)
  \/ \E t \in TaskIds : TaskPoll(t)
  \/ \E t \in TaskIds : TaskCancelled(t)
  \/ \E t \in TaskIds, ok \in BOOLEAN : CleanupReply(t, ok)
  \/ Issue(PumpOn)
  \/ Issue(PumpOff)
  \/ \E intensity \in IntensityArgs : Issue(PumpIntensity(intensity))
  \/ \E i \in 1..Len(pending) : ManualWake(i)
  \/ \E i \in 1..Len(pending), ok \in BOOLEAN : DirectReply(i, ok)
  \/ Issue(LatchOn(None, None))
  \/ Issue(LatchOff)
  \/ \E reason \in ReasonArgs : Issue(LatchReason(reason))
  \/ Issue(ProbeStart)
  \/ \E i \in 1..Len(pending), up \in BOOLEAN : ProbeReply(i, up)
  \/ \E i \in 1..Len(pending) : ProbeNotified(i)
  \/ SessionTimer
  \/ \E minutes \in MinutesArgs : Issue(SessionRem(minutes))
  \/ \E minutes \in MinutesArgs : Issue(SessionSet(minutes))
  \/ \E minutes \in MinutesArgs : Issue(SessionAdd(minutes))
  \/ \E seconds \in BankArgs : Issue(BankAdd(seconds))
  \/ \E seconds \in BankArgs : Issue(BankRem(seconds))
  \/ \E seconds \in BankArgs : Issue(BankSet(seconds))
  \/ Issue(BankReset)
  \/ Tick

Spec == Init /\ [][Next]_vars

\* the same program from a freshly reset session with a full bank, with room
\* for one command more: a start and two commands that follow it
LongInit ==
  /\ now = 0
  /\ session_time_remaining = max_session_time
  /\ banked_time = max_banked_time
  /\ latch_active = FALSE
  /\ service_was_up = TRUE
  /\ pump_intensity = SEC
  /\ pump_task = NoTask
  /\ pump_task_end_time = None
  /\ tasks = [t \in TaskIds |-> NoTaskRec]
  /\ pending = <<>>
  /\ pump_level = 0
  /\ tick_at = SEC
  /\ latch_reason = None
  /\ latch_end_time = None
  /\ latch_timer = NoTimer
  /\ timers = [k \in TimerIds |-> NoTimerRec]
  /\ disk = Snapshot(session_time_remaining, banked_time, latch_active,
                     latch_reason, latch_end_time)
  /\ save_pc = "idle"
  /\ temp_path = FALSE
  /\ temp_files = 0
  /\ file_intact = TRUE
  /\ config = Configured
  /\ last_pump_time = FALSE
  /\ pump_status = "none"
  /\ api_pump_state = "none"
  /\ budget = MaxCmds + 1

LongSpec == LongInit /\ [][Next]_vars

\* ---------------------------------------------------------------- restart
\* StateManager.load_state and apply_to_bot in a fresh process: the keys of the
\* file, or StateManager's defaults when the file does not parse
Loaded(file) ==
  IF file_intact THEN file ELSE Snapshot(0, 0, FALSE, None, None)

\* AdminGroup.reboot: save_session_state, then os.execv replaces the process.
\* Every coroutine of the old process is gone; lBISBot.__init__ sets the
\* attributes anew and load_session_state applies the keys of the file. The
\* clock (time.monotonic) and the device go on as they were.
Reboot ==
  LET saved == Snapshot(session_time_remaining, banked_time, latch_active,
                        latch_reason, latch_end_time)
  IN  /\ disk' = saved
      /\ session_time_remaining' = Loaded(saved).session_time_remaining
      /\ banked_time' = Loaded(saved).banked_time
      /\ latch_active' = Loaded(saved).latch_active
      /\ latch_reason' = Loaded(saved).latch_reason
      /\ latch_end_time' = Loaded(saved).latch_end_time
      /\ latch_timer' = NoTimer
      /\ timers' = [k \in TimerIds |-> NoTimerRec]
      /\ service_was_up' = TRUE
      /\ pump_intensity' = SEC
      /\ pump_task' = NoTask
      /\ pump_task_end_time' = None
      /\ tasks' = [t \in TaskIds |-> NoTaskRec]
      /\ pending' = <<>>
      /\ tick_at' \in {now + phase : phase \in TickPhases}
      /\ last_pump_time' = FALSE
      /\ pump_status' = "none"
      /\ api_pump_state' = "none"
      /\ UNCHANGED <<now, pump_level, file_state, config>>

\* The latch and its persistence: the latch commands with reasons and
\* durations, the auto_unlatch tasks, pump intensity and reboot, with no pump
\* run in progress.
LatchNext ==
  \/ \E reason \in ReasonArgs, duration \in DurationArgs : Issue(LatchOn(reason, duration))
  \/ Issue(LatchOff)
  \/ Issue(LatchToggle)
  \/ \E reason \in ReasonArgs : Issue(LatchReason(reason))
  \/ \E i \in 1..Len(pending), ok \in BOOLEAN : DirectReply(i, ok)
  \/ \E k \in TimerIds : TimerFire(k)
  \/ \E k \in TimerIds : TimerNotified(k)
  \/ \E intensity \in IntensityArgs : Issue(PumpIntensity(intensity))
  \/ Issue(Reboot)
  \/ SessionTimer
  \/ Tick

LatchSpec == Init /\ [][LatchNext]_vars

\* The pump runs and reboot: the starts, the loops with their cleanup, the
\* session timer, and a restart at any moment of a run.
RebootNext ==
  \/ \E seconds \in SecondsArgs : Issue(Inflate(seconds))
  \/ \E seconds \in SecondsArgs : Issue(InflateDebt(seconds))
  \/ \E i \in 1..Len(pending), ok \in BOOLEAN : StartReply(i, ok)
  \/ \E t \in TaskIds : TaskStart(t)
  \/ \E t \in TaskIds : TaskPoll(t)
  \/ \E t \in TaskIds, ok \in BOOLEAN : CleanupReply(t, ok)
  \/ Issue(Reboot)
  \/ SessionTimer
  \/ Tick

RebootSpec == Init /\ [][RebootNext]_vars

\* ------------------------------------------------------------- scheduling
\* What the event loop does on its own once a coroutine can go on: a suspended
\* handler or task is resumed by its reply (api_request gives up after its
\* timeout), a sleep returns, the session timer runs, the clock moves on.
Program ==
  \/ \E i \in 1..Len(pending), ok \in BOOLEAN : StartReply(i, ok)
  \/ \E t \in TaskIds : TaskStart(t)
  \/ \E t \in TaskIds : TaskPoll(t)
  \/ \E t \in TaskIds : TaskCancelled(t)
  \/ \E t \in TaskIds, ok \in BOOLEAN : CleanupReply(t, ok)
  \/ \E i \in 1..Len(pending) : ManualWake(i)
  \/ \E i \in 1..Len(pending), ok \in BOOLEAN : DirectReply(i, ok)
  \/ \E i \in 1..Len(pending), up \in BOOLEAN : ProbeReply(i, up)
  \/ \E i \in 1..Len(pending) : ProbeNotified(i)
  \/ SessionTimer
  \/ Tick

\* The pump runs under a fair event loop: runs are started (or extended) up to
\* LastStart, so that each can end within MaxTime; pump off, the latch and the
\* probe come at any time. No command turns the pump on by hand.
LiveNext ==
  \/ \E seconds \in SecondsArgs : now <= LastStart /\ Issue(Inflate(seconds))
  \/ \E seconds \in SecondsArgs : now <= LastStart /\ Issue(InflateDebt(seconds))
  \/ Issue(PumpOff)
  \/ Issue(LatchOn(None, None))
  \/ Issue(LatchOff)
  \/ Issue(ProbeStart)
  \/ Program

LiveSpec == Init /\ [][LiveNext]_vars /\ WF_vars(Program)

\* ------------------------------------------------------ a save, step by step
\* StateManager.save_state is synchronous: no coroutine runs inside it, which is
\* why the actions above take a save as part of their step. What the file system
\* holds while it runs, and after a call of it has failed, is followed here one
\* file operation at a time.

\* what a save leaves alone: the bot's attributes and every coroutine
SaveFrame ==
  UNCHANGED <<now, session_time_remaining, banked_time, latch_active, service_was_up,
              pump_intensity, pump_task, pump_task_end_time, tasks, pending,
              pump_level, tick_at, latch_state, admin_state, budget>>

\* the state a save starts from: the attributes as some command left them, and
\* the file as an earlier save wrote it
SaveInit ==
  /\ now = 0
  /\ session_time_remaining \in 0..max_session_time
  /\ banked_time \in 0..max_banked_time
  /\ latch_active \in BOOLEAN
  /\ service_was_up = TRUE
  /\ pump_intensity = SEC
  /\ pump_task = NoTask
  /\ pump_task_end_time = None
  /\ tasks = [t \in TaskIds |-> NoTaskRec]
  /\ pending = <<>>
  /\ pump_level = 0
  /\ tick_at \in TickPhases
  /\ latch_reason \in (IF latch_active THEN ReasonArgs ELSE {None})
  /\ latch_end_time = None
  /\ latch_timer = NoTimer
  /\ timers = [k \in TimerIds |-> NoTimerRec]
  /\ disk \in {Snapshot(session, banked, FALSE, None, None) :
                 session \in 0..max_session_time, banked \in 0..max_banked_time}
  /\ save_pc = "idle"
  /\ temp_path = FALSE
  /\ temp_files = 0
  /\ file_intact = TRUE
  /\ config = Configured
  /\ last_pump_time = FALSE
  /\ pump_status = "none"
  /\ api_pump_state = "none"
  /\ budget = MaxCmds

\* StateManager.update_and_save: the attributes are copied into self.state and
\* save_state is entered
UpdateAndSave ==
  /\ save_pc = "idle"
  /\ save_pc' = "create"
  /\ temp_path' = FALSE
  /\ UNCHANGED <<temp_files, file_intact, disk>>
  /\ SaveFrame

\* save_state: tempfile.NamedTemporaryFile('w', dir=temp_dir, delete=False)
SaveCreate(ok) ==
  /\ save_pc = "create"
  /\ IF ok
     THEN /\ temp_files < MaxTempFiles
          /\ temp_files' = temp_files + 1
          /\ save_pc' = "dump"
     ELSE /\ save_pc' = "except"
          /\ UNCHANGED temp_files
  /\ UNCHANGED <<temp_path, file_intact, disk>>
  /\ SaveFrame

\* save_state: json.dump(self.state, temp_f), and `temp_path = temp_f.name`
\* after it. When the dump raises, the `with` closes the file and temp_path
\* stays unbound.
SaveDump(ok) ==
  /\ save_pc = "dump"
  /\ save_pc' = IF ok THEN "close" ELSE "except"
  /\ temp_path' = ok
  /\ UNCHANGED <<temp_files, file_intact, disk>>
  /\ SaveFrame

\* save_state: the `with` block is left and the file closed, which writes out
\* what was buffered
SaveClose(ok) ==
  /\ save_pc = "close"
  /\ save_pc' = IF ok THEN "move" ELSE "except"
  /\ UNCHANGED <<temp_path, temp_files, file_intact, disk>>
  /\ SaveFrame

\* the snapshot a save writes
NewSnapshot ==
  Snapshot(session_time_remaining, banked_time, latch_active, latch_reason,
           latch_end_time)

\* save_state: shutil.move(temp_path, self.file_path), which renames; when the
\* rename raises OSError, shutil.move goes on to copy the file over the target
SaveMove(ok) ==
  /\ save_pc = "move"
  /\ IF ok
     THEN /\ disk' = NewSnapshot
          /\ file_intact' = TRUE
          /\ temp_files' = temp_files - 1
          /\ temp_path' = FALSE
          /\ save_pc' = "idle"
     ELSE /\ save_pc' = "copy"
          /\ UNCHANGED <<disk, file_intact, temp_files, temp_path>>
  /\ SaveFrame

\* shutil.move's copy: the target is opened for writing, which empties it
SaveCopyOpen(ok) ==
  /\ save_pc = "copy"
  /\ save_pc' = IF ok THEN "copying" ELSE "except"
  /\ file_intact' = IF ok THEN FALSE ELSE file_intact
  /\ UNCHANGED <<disk, temp_files, temp_path>>
  /\ SaveFrame

\* shutil.move's copy: the content is written and the temporary file unlinked
SaveCopyWrite(ok) ==
  /\ save_pc = "copying"
  /\ IF ok
     THEN /\ disk' = NewSnapshot
          /\ file_intact' = TRUE
          /\ temp_files' = temp_files - 1
          /\ temp_path' = FALSE
          /\ save_pc' = "idle"
     ELSE /\ save_pc' = "except"
          /\ UNCHANGED <<disk, file_intact, temp_files, temp_path>>
  /\ SaveFrame

\* save_state, `except IOError` / `except Exception`: the temporary file is
\* removed if temp_path is bound and the file exists
SaveExcept ==
  /\ save_pc = "except"
  /\ temp_files' = IF temp_path THEN temp_files - 1 ELSE temp_files
  /\ temp_path' = FALSE
  /\ save_pc' = "idle"
  /\ UNCHANGED <<file_intact, disk>>
  /\ SaveFrame

SaveNext ==
  \/ UpdateAndSave
  \/ \E ok \in BOOLEAN : SaveCreate(ok)
  \/ \E ok \in BOOLEAN : SaveDump(ok)
  \/ \E ok \in BOOLEAN : SaveClose(ok)
  \/ \E ok \in BOOLEAN : SaveMove(ok)
  \/ \E ok \in BOOLEAN : SaveCopyOpen(ok)
  \/ \E ok \in BOOLEAN : SaveCopyWrite(ok)
  \/ SaveExcept

SaveSpec == SaveInit /\ [][SaveNext]_vars

\* ------------------------------------------- the device's replies, as parsed
\* An HTTP reply of the device: its status (0: a timeout or a connection
\* error, no reply at all), its content type, the shape of its body, and the
\* number the body carries (a level in tenths, or 0 / 1 for is_on).
Reply(status, ctype, body, val) ==
  [status |-> status, ctype |-> ctype, body |-> body, val |-> val]

\* a level in the encoding of is_on
IsOn(level) == IF level > 0 THEN 1 ELSE 0

\* GET /api/getPumpState at the given level: plain numeric text ("1" or "1.00"),
\* {"is_on": b} or {"value": n}, or no usable reply
GetFormats == {"int", "float", "is_on", "value"}
GetPumpStateReply(format, level) ==
  CASE format = "int" -> Reply(200, "text", "int", level)
    [] format = "float" -> Reply(200, "text", "float", level)
    [] format = "is_on" -> Reply(200, "json", "is_on", IsOn(level))
    [] format = "value" -> Reply(200, "json", "value", level)
    [] OTHER -> Reply(0, "", "", 0)

\* POST /api/setPumpState: 200 with a JSON body that is a non-empty object, {},
\* null, false or 0, 200 with a word as text, a non-200 status, or no reply
SetPumpStateReplies ==
  {Reply(200, "json", body, 0) : body \in {"ack", "empty", "null", "false", "zero"}}
  \cup {Reply(200, "text", "word", 0), Reply(500, "text", "word", 0), Reply(0, "", "", 0)}

\* the values api_request returns: None, a dict of one key (or of none, key ""),
\* or a JSON scalar
NoneValue == [kind |-> "None", key |-> "", val |-> 0, form |-> ""]
Dict(key, val, form) == [kind |-> "dict", key |-> key, val |-> val, form |-> form]
Scalar(kind, val) == [kind |-> kind, key |-> "", val |-> val, form |-> ""]

\* utils.api.api_request, from the reply on: None unless the status is 200;
\* resp.json() for a JSON body; for text, {"value": int(text)} when int() takes
\* it and {"message": text} when it does not
api_request(reply) ==
  IF reply.status # 200 THEN NoneValue
  ELSE IF reply.ctype = "json"
  THEN CASE reply.body = "is_on" -> Dict("is_on", reply.val, "bool")
         [] reply.body = "value" -> Dict("value", reply.val, "number")
         [] reply.body = "ack" -> Dict("pump", reply.val, "number")
         [] reply.body = "empty" -> Dict("", 0, "")
         [] reply.body = "null" -> NoneValue
         [] reply.body = "false" -> Scalar("bool", 0)
         [] OTHER -> Scalar("int", 0)
  ELSE IF reply.body = "int" THEN Dict("value", reply.val, "number")
  ELSE Dict("message", reply.val, reply.body)

\* Python's truth value of what api_request returned, as `if await
\* api_request(...)` tests it
Truthy(value) ==
  CASE value.kind = "None" -> FALSE
    [] value.kind = "dict" -> value.key # ""
    [] OTHER -> value.val # 0

\* AdminGroup.status: the Pump field for what api_request returned
PumpStatus(pump_state) ==
  IF pump_state.kind = "None" THEN "OFF (API check failed)"
  ELSE IF pump_state.kind = "dict"
  THEN IF pump_state.key = "is_on" /\ pump_state.val # 0 THEN "ON" ELSE "OFF"
  ELSE IF pump_state.kind = "int"
  THEN IF pump_state.val # 0 THEN "ON" ELSE "OFF"
  ELSE "UNKNOWN"

\* utils.api.get_api_pump_state for what api_request returned: "True", "False",
\* or "None" when the state is unknown
get_api_pump_state(response_data) ==
  IF response_data.kind # "dict" THEN "None"
  ELSE IF response_data.key = "message"
  THEN IF response_data.form = "float"
       THEN IF response_data.val > 0 THEN "True" ELSE "False"
       ELSE "None"
  ELSE IF response_data.key = "value"
  THEN IF response_data.val > 0 THEN "True" ELSE "False"
  ELSE IF response_data.key = "is_on"
  THEN IF response_data.val # 0 THEN "True" ELSE "False"
  ELSE "None"

\* ------------------------------------------------------- admin commands
\* what a command of this section leaves alone
AdminFrame ==
  UNCHANGED <<now, banked_time, latch_active, service_was_up, pump_intensity,
              pump_task, pump_task_end_time, tasks, tick_at, latch_state, file_state>>

\* AdminGroup.wearer: only in a DM, and only with the configured secret;
\* save_wearer_id writes the id to bot.json
Wearer(user, dm, secret) ==
  IF dm /\ secret = config.wearer_secret
  THEN /\ config' = [config EXCEPT !.wearer_id = user]
       /\ UNCHANGED <<session_time_remaining, pending, pump_level, disk,
                      last_pump_time, pump_status, api_pump_state>>
       /\ AdminFrame
  ELSE UNCHANGED prog

\* the fallback of `config.get('default_session_time', 1800)`
ResetFallback == 1800

\* SessionGroup.reset
SessionReset ==
  /\ session_time_remaining' = IF config.default_session_time = None
                               THEN ResetFallback
                               ELSE config.default_session_time
  /\ UNCHANGED <<pending, pump_level, admin_state>>
  /\ AdminFrame
  /\ save_session_state

\* AdminGroup.status up to its first await, the GET that tells whether the
\* service is reachable
Status ==
  /\ CanSend
  /\ pending' = Append(pending, Req("status", 0, 0, 0))
  /\ UNCHANGED <<session_time_remaining, pump_level, disk, admin_state>>
  /\ AdminFrame

\* AdminGroup.status after that GET: with bot.last_pump_time unset the read of
\* it raises AttributeError and no answer is sent; with a live task the answer
\* names the task; otherwise getPumpState is asked
StatusProbed(i) ==
  /\ i \in 1..Len(pending)
  /\ pending[i].kind = "status" /\ pending[i].stage = "api"
  /\ IF ~last_pump_time
     THEN /\ pending' = Remove(pending, i)
          /\ UNCHANGED pump_status
     ELSE IF TaskRunning
     THEN /\ pending' = Remove(pending, i)
          /\ pump_status' = "ON (Timed/Banked)"
     ELSE /\ pending' = [pending EXCEPT ![i].stage = "state"]
          /\ UNCHANGED pump_status
  /\ UNCHANGED <<session_time_remaining, pump_level, disk, config, last_pump_time,
                 api_pump_state, budget>>
  /\ AdminFrame

\* AdminGroup.status resumed by the reply to getPumpState
StatusReply(i, reply) ==
  /\ i \in 1..Len(pending)
  /\ pending[i].kind = "status" /\ pending[i].stage = "state"
  /\ pending' = Remove(pending, i)
  /\ pump_status' = PumpStatus(api_request(reply))
  /\ UNCHANGED <<session_time_remaining, pump_level, disk, config, last_pump_time,
                 api_pump_state, budget>>
  /\ AdminFrame

\* get_api_pump_state up to its await of api_request
GetApiPumpState ==
  /\ CanSend
  /\ pending' = Append(pending, Req("state", 0, 0, 0))
  /\ UNCHANGED <<session_time_remaining, pump_level, disk, admin_state>>
  /\ AdminFrame

\* get_api_pump_state resumed by the reply
ApiPumpStateReply(i, reply) ==
  /\ i \in 1..Len(pending)
  /\ pending[i].kind = "state"
  /\ pending' = Remove(pending, i)
  /\ api_pump_state' = get_api_pump_state(api_request(reply))
  /\ UNCHANGED <<session_time_remaining, pump_level, disk, config, last_pump_time,
                 pump_status, budget>>
  /\ AdminFrame

\* _send_pump_state_api resumed by the device's reply to setPumpState, with the
\* reply in full: the device has taken the level when it answered 200, and the
\* helper counts the call a success when api_request returned a true value
ManualReply(i, reply) ==
  /\ i \in 1..Len(pending)
  /\ pending[i].kind = "manual" /\ pending[i].stage = "api"
  /\ pending' = Remove(pending, i)
  /\ pump_level' = IF reply.status = 200 THEN pending[i].level ELSE pump_level
  /\ last_pump_time' = (Truthy(api_request(reply)) \/ last_pump_time)
  /\ UNCHANGED <<session_time_remaining, disk, config, pump_status, api_pump_state,
                 budget>>
  /\ AdminFrame

\* the configurations and the device a bot may start with: the secret left at
\* its default or set, a wearer bound or none, default_session_time configured
\* or absent, the pump off or on
Configs ==
  [wearer_secret : Secrets, wearer_id : {None} \cup Users,
   default_session_time : {None, max_session_time - 1, max_session_time}]

AdminInit ==
  /\ now = 0
  /\ session_time_remaining \in 0..max_session_time
  /\ banked_time = 0
  /\ latch_active = FALSE
  /\ service_was_up = TRUE
  /\ pump_intensity = SEC
  /\ pump_task = NoTask
  /\ pump_task_end_time = None
  /\ tasks = [t \in TaskIds |-> NoTaskRec]
  /\ pending = <<>>
  /\ pump_level \in Levels
  /\ tick_at \in TickPhases
  /\ latch_reason = None
  /\ latch_end_time = None
  /\ latch_timer = NoTimer
  /\ timers = [k \in TimerIds |-> NoTimerRec]
  /\ disk = Snapshot(session_time_remaining, banked_time, latch_active,
                     latch_reason, latch_end_time)
  /\ save_pc = "idle"
  /\ temp_path = FALSE
  /\ temp_files = 0
  /\ file_intact = TRUE
  /\ config \in Configs
  /\ last_pump_time = FALSE
  /\ pump_status = "none"
  /\ api_pump_state = "none"
  /\ budget = MaxCmds

\* The commands that read the configuration and the device's replies, with no
\* pump run in progress.
AdminNext ==
  \/ \E user \in Users, dm \in BOOLEAN, secret \in Secrets : Issue(Wearer(user, dm, secret))
  \/ Issue(SessionReset)
  \/ Issue(Status)
  \/ \E i \in 1..Len(pending) : StatusProbed(i)
  \/ \E i \in 1..Len(pending), format \in GetFormats \cup {"none"} :
       StatusReply(i, GetPumpStateReply(format, pump_level))
  \/ Issue(GetApiPumpState)
  \/ \E i \in 1..Len(pending), format \in GetFormats \cup {"none"} :
       ApiPumpStateReply(i, GetPumpStateReply(format, pump_level))
  \/ Issue(PumpOn)
  \/ Issue(PumpOff)
  \/ \E i \in 1..Len(pending), reply \in SetPumpStateReplies : ManualReply(i, reply)

AdminSpec == AdminInit /\ [][AdminNext]_vars

\* ================================================================== claims

\* C1: at most one pump loop task is live at any time, a task being live from
\* its creation until it has ended.
C1_AtMostOneLiveTask == Cardinality({t \in TaskIds : Live(t)}) <= 1

\* C2: every pump task that entered its loop ends with its cleanup run to
\* completion, also when it is cancelled while it waits inside the cleanup: no
\* task ends by a CancelledError that cut the cleanup short.
C2_CleanupAlwaysCompletes == \A t \in TaskIds : tasks[t].pc # "cancelled"

\* a handler has just sent the device a non-zero level
SentNonZero ==
  /\ Len(pending') > Len(pending)
  /\ pending'[Len(pending')].stage = "api"
  /\ pending'[Len(pending')].level > 0

\* C3: while latch_active is true no command sends the device a non-zero level.
C3_NoActuationWhileLatched == [][SentNonZero => ~latch_active]_vars

\* a start has just created a pump task
Spawned == \E t \in TaskIds : tasks[t].pc = "none" /\ tasks'[t].pc = "new"

\* C4: a start never creates a pump task while the latch is active or the link
\* is marked down.
C4_NoSpawnWhileBlocked == [][Spawned => (~latch_active /\ service_was_up)]_vars

LatchedPoll(t) == TaskPoll(t) /\ tasks[t].mode = "timed" /\ tasks[t].latched

\* C5: when the latch is engaged while a Timed task is in its loop, the task
\* leaves the loop at its next poll and banks the whole seconds that remained,
\* up to the bank's cap, when some time remained.
C5_LatchStopsAtNextPoll ==
  [][\A t \in TaskIds : LatchedPoll(t) =>
       /\ tasks'[t].pc = "cleanup"
       /\ banked_time' = IF pump_task_end_time - now > 0
                         THEN banked_time + Min(IntSeconds(pump_task_end_time - now),
                                                max_banked_time - banked_time)
                         ELSE banked_time]_vars

\* the cleanup of task t completes in a behaviour whose only command was the
\* start of t: no latch, link loss, cancel, extension or session command
UndisturbedEnd(t, mode) ==
  /\ \E ok \in BOOLEAN : CleanupReply(t, ok)
  /\ tasks[t].mode = mode
  /\ budget = MaxCmds - 1

\* C6: a Timed task that runs undisturbed to its end time lowers
\* session_time_remaining, timer ticks and cleanup debit together, by exactly
\* its run_seconds = min(requested, session at start).
C6_TimedRunDebitsRunSeconds ==
  [][\A t \in TaskIds : UndisturbedEnd(t, "timed") =>
       tasks[t].session_at_start - session_time_remaining' = tasks[t].initial_run_seconds]_vars

\* C7: a Banked task that runs undisturbed lowers banked_time and
\* session_time_remaining each by exactly its run_seconds
\* = min(requested, banked, session, max_pump_duration).
C7_BankedRunDebitsRunSeconds ==
  [][\A t \in TaskIds : UndisturbedEnd(t, "banked") =>
       /\ tasks[t].decremented_bank = tasks[t].initial_run_seconds
       /\ tasks[t].session_at_start - session_time_remaining' = tasks[t].initial_run_seconds]_vars

\* inflate of `seconds` is accepted while a Timed task is live
Extends(seconds) ==
  /\ Issue(Inflate(seconds))
  /\ seconds \in 1..max_pump_duration
  /\ ~latch_active /\ service_was_up
  /\ TaskRunning /\ tasks[pump_task].mode = "timed"

\* the claim's g for r remaining, in clock units
Granted(r, seconds) ==
  Min(seconds * SEC,
      Max(0, Min(max_pump_duration * SEC, Max(r, session_time_remaining * SEC)) - r))

C9_EndTimeWithinMaxDuration ==
  TaskRunning => /\ pump_task_end_time # None
                 /\ pump_task_end_time - now <= max_pump_duration * SEC

\* a task that has run for a while and was extended up to the full cap
C9_Witness ==
  /\ TaskRunning /\ tasks[pump_task].pc = "sleep" /\ now > tasks[pump_task].start_time
  /\ pump_task_end_time - now = max_pump_duration * SEC

\* C11: 0 <= banked_time <= max_banked_time in every reachable state, whatever
\* bank commands, interruption and overflow deposits and Banked-loop decrements
\* have run.
C11_BankWithinBounds == 0 <= banked_time /\ banked_time <= max_banked_time

\* a Timed task was interrupted with a second or more left, and the deposit
\* ended at the bank's cap
C11_Witness ==
  \E t \in TaskIds : /\ tasks[t].pc = "cleanup" /\ tasks[t].mode = "timed"
                     /\ Interrupted /\ pump_task_end_time - now >= SEC
                     /\ banked_time = max_banked_time

C13_SessionSetRejectsAboveMax ==
  [][\A minutes \in MinutesArgs : Issue(SessionSet(minutes)) =>
       IF minutes * 60 > max_session_time
       THEN session_time_remaining' = session_time_remaining
       ELSE minutes >= 0 => session_time_remaining' = minutes * 60]_vars

\* C14: pump intensity v issued while a pump task is live, for every v in
\* [0, 1] and so for 0.0, stores v as the default, sends v to the device and
\* leaves the task as it is: not cancelled, its end time unchanged.
C14_IntensityKeepsTaskRunning ==
  [][\A v \in Levels : (Issue(PumpIntensity(v)) /\ TaskRunning) =>
       /\ pump_intensity' = v
       /\ Len(pending') = Len(pending) + 1
       /\ pending'[Len(pending')].level = v
       /\ tasks' = tasks
       /\ pump_task_end_time' = pump_task_end_time]_vars

\* C15: pump on and pump off, issued while a pump task is live, cancel that task
\* before they send their own command to the device.
C15_ManualCancelsFirst ==
  [][((Issue(PumpOn) \/ Issue(PumpOff)) /\ TaskRunning) =>
       /\ tasks'[pump_task].cancel
       /\ pending'[Len(pending')].stage = "sleep"]_vars

\* the cleanup of task t completes after the run reached its end time, the
\* device having taken a pump on / pump off issued while t was live and no other
\* command since
CleanupAfterManual(t) ==
  /\ \E ok \in BOOLEAN : CleanupReply(t, ok)
  /\ tasks[t].manual_level # None
  /\ pump_task = t /\ pump_task_end_time # None /\ now >= pump_task_end_time

\* C16: after a pump on / pump off has commanded the device, the cleanup of the
\* task that was live when it was issued does not deliver its own level 0: the
\* device stays at the manual level.
C16_CleanupKeepsManualLevel ==
  [][\A t \in TaskIds : CleanupAfterManual(t) => pump_level' = tasks[t].manual_level]_vars

\* a step of the handler of pump on / pump off: the call, the end of its
\* 0.1 s sleep, the device's answer
ManualStep ==
  \/ Issue(PumpOn)
  \/ Issue(PumpOff)
  \/ \E i \in 1..Len(pending) :
       /\ pending[i].kind = "manual" /\ pending[i].interaction
       /\ ManualWake(i) \/ \E ok \in BOOLEAN : DirectReply(i, ok)

\* the cleanup of task t completes while the pump on / pump off that cancelled
\* t is still being handled
CleanupOfManualCancel(t) ==
  /\ \E ok \in BOOLEAN : CleanupReply(t, ok)
  /\ \E i \in 1..Len(pending) :
       /\ pending[i].kind = "manual" /\ pending[i].interaction
       /\ pending[i].task = t /\ pending[i].level = 0

\* C17: pump on and pump off leave session_time_remaining and banked_time
\* unchanged, in the handler's own steps and in the cleanup of the task they
\* cancelled.
C17_ManualLeavesBudgets ==
  [][(ManualStep \/ \E t \in TaskIds : CleanupOfManualCancel(t)) =>
       /\ session_time_remaining' = session_time_remaining
       /\ banked_time' = banked_time]_vars

\* C18: on a probe that detects a transition, service_was_up has its new value
\* before the notification is attempted: while a notification is in flight the
\* flag agrees with the probe's outcome.
C18_FlagSetBeforeNotification ==
  \A i \in 1..Len(pending) :
     /\ pending[i].stage = "dm_up" => service_was_up
     /\ pending[i].stage = "dm_down" => ~service_was_up

\* the probes that are notifying the wearer
Notifying == {i \in 1..Len(pending) : pending[i].stage \in {"dm_up", "dm_down"}}

\* C19: with a recipient configured, a probe sends a notification if and only
\* if its outcome differs from the value service_was_up had before the probe,
\* and then one; nothing but a probe's outcome starts a notification.
C19_NotifyOncePerTransition ==
  /\ [][\A i \in 1..Len(pending), up \in BOOLEAN : ProbeReply(i, up) =>
          /\ pending[i].was_previously_up = service_was_up
          /\ Cardinality(Notifying') - Cardinality(Notifying)
               = IF up # service_was_up THEN 1 ELSE 0]_vars
  /\ [][Cardinality(Notifying') > Cardinality(Notifying) =>
          \E i \in 1..Len(pending), up \in BOOLEAN : ProbeReply(i, up)]_vars

\* a probe found the link up again after one had found it down, and is
\* notifying the wearer
C19_Witness == \E i \in 1..Len(pending) : pending[i].stage = "dm_up"

\* C20: after every mutation of the persisted accounting state the snapshot on
\* disk equals the values in memory before control returns to the event loop:
\* at every suspension point the file holds the current session_time_remaining,
\* banked_time and latch_active.
C20_DiskEqualsMemory ==
  disk = Snapshot(session_time_remaining, banked_time, latch_active,
                  latch_reason, latch_end_time)

\* C21: saving the state and then restarting (a fresh bot instance that loads
\* the snapshot) yields the same value as before the save for each of
\* session_time_remaining, banked_time, default_session_time (a constant of the
\* process), pump_intensity, latch_active, latch_reason and latch_end_time.
C21_RestartKeepsState ==
  [][Issue(Reboot) =>
       /\ session_time_remaining' = session_time_remaining
       /\ banked_time' = banked_time
       /\ disk'.default_session_time = default_session_time
       /\ pump_intensity' = pump_intensity
       /\ latch_active' = latch_active
       /\ latch_reason' = latch_reason
       /\ latch_end_time' = latch_end_time]_vars

\* C22: in every reachable state latch_end_time is set if and only if an
\* auto-unlatch timer is pending (latch_timer set), also after a restart that
\* reloaded the snapshot and further latch commands.
C22_EndTimeIffTimer == (latch_end_time # None) <=> (latch_timer # NoTimer)

\* C23: in every reachable state with latch_active false, latch_reason and
\* latch_end_time are absent and no auto-unlatch timer is pending.
C23_UnlatchedIsClear ==
  ~latch_active => /\ latch_reason = None
                   /\ latch_end_time = None
                   /\ latch_timer = NoTimer

\* C24: when the latch was manually unlatched before its auto-unlatch timer
\* fires, the timer's firing changes no latch state and sends no expiry
\* notification.
C24_LateTimerIsNoOp ==
  [][\A k \in TimerIds : (TimerFire(k) /\ timers[k].unlatched) =>
       /\ UNCHANGED <<latch_active, latch_reason, latch_end_time, latch_timer>>
       /\ timers'[k].pc # "notify"]_vars

RejectedForInput ==
  \/ \E minutes \in MinutesArgs :
       \/ minutes <= 0 /\ (Issue(SessionAdd(minutes)) \/ Issue(SessionRem(minutes)))
       \/ minutes < 0 /\ Issue(SessionSet(minutes))
  \/ \E seconds \in BankArgs :
       \/ seconds <= 0 /\ (Issue(BankAdd(seconds)) \/ Issue(BankRem(seconds)))
       \/ seconds < 0 /\ Issue(BankSet(seconds))
  \/ \E intensity \in IntensityArgs :
       (intensity < 0 \/ intensity > SEC) /\ Issue(PumpIntensity(intensity))
  \/ \E seconds \in SecondsArgs :
       \/ (seconds <= 0 \/ seconds > max_pump_duration) /\ Issue(Inflate(seconds))
       \/ seconds <= 0 /\ Issue(InflateDebt(seconds))
  \/ \E reason \in ReasonArgs : ~latch_active /\ Issue(LatchReason(reason))

\* C26: every command rejected for input validation (session add/rem with
\* minutes <= 0, session set with minutes < 0, bank add/rem with seconds <= 0,
\* bank set with seconds < 0, pump intensity outside [0, 1], inflate with
\* seconds <= 0 or above max_pump_duration with or without a live task,
\* inflate_debt with seconds <= 0, latch reason while unlatched) leaves
\* session_time_remaining, banked_time, pump_intensity, the latch state and the
\* pump task unchanged and sends the device nothing.
C26_RejectedInputChangesNothing ==
  [][RejectedForInput =>
       UNCHANGED <<session_time_remaining, banked_time, pump_intensity, latch_active,
                   latch_state, pump_task, pump_task_end_time, tasks, pending,
                   pump_level, disk>>]_vars

\* a pump task is in its loop, untouched since its start, and one more command
\* than the start has been issued
C26_Witness ==
  /\ TaskRunning /\ tasks[pump_task].pc = "sleep" /\ ~tasks[pump_task].cancel
  /\ ~latch_active /\ pending = <<>>
  /\ pump_task_end_time
       = tasks[pump_task].start_time + tasks[pump_task].initial_run_seconds * SEC
  /\ budget = MaxCmds - 2

\* C27: when the device's setPumpState fails as a Timed or Banked start turns
\* the pump on, no pump task is created, pump_task and pump_task_end_time stay
\* as they were (absent), and session_time_remaining and banked_time are
\* unchanged.
C27_FailedStartSpawnsNothing ==
  [][\A i \in 1..Len(pending) : StartReply(i, FALSE) =>
       /\ ~Spawned
       /\ UNCHANGED <<tasks, pump_task, pump_task_end_time, session_time_remaining,
                      banked_time, pump_level>>]_vars

\* a Banked start awaits the device's answer with no task recorded
C27_Witness ==
  \E i \in Starts : /\ pending[i].kind = "banked" /\ pending[i].stage = "api"
                    /\ pump_task = NoTask /\ pump_task_end_time = None

\* C28: only a live Timed task can be extended: while a Banked task is live no
\* command advances its end time, and an inflate_debt issued while any task is
\* live is rejected.
C28_BankedRunNotExtended ==
  /\ [][(/\ TaskRunning /\ tasks[pump_task].mode = "banked"
         /\ pump_task' = pump_task
         /\ pump_task_end_time # None /\ pump_task_end_time' # None)
        => pump_task_end_time' <= pump_task_end_time]_vars
  /\ [][\A seconds \in SecondsArgs : (Issue(InflateDebt(seconds)) /\ TaskRunning) =>
          UNCHANGED <<tasks, pending, pump_task, pump_task_end_time>>]_vars

\* a session command
SessionCommand ==
  \E minutes \in MinutesArgs :
    Issue(SessionAdd(minutes)) \/ Issue(SessionRem(minutes)) \/ Issue(SessionSet(minutes))

\* C29: session_time_remaining is decreased only by the session commands, by
\* the timer's tick while a pump task is live and by a task's cleanup debit;
\* while no pump task is live and no session command runs it stays unchanged,
\* also when the pump was turned on by pump on.
C29_SessionDecreasesOnlyWhileRunning ==
  /\ [][session_time_remaining' < session_time_remaining =>
          \/ SessionCommand
          \/ SessionTimer /\ TaskRunning
          \/ \E t \in TaskIds, ok \in BOOLEAN : CleanupReply(t, ok)]_vars
  /\ [][((\A t \in TaskIds : ~Live(t)) /\ ~SessionCommand) =>
          session_time_remaining' = session_time_remaining]_vars

\* the pump was turned on by pump on, no pump task has ever been created, and
\* the session timer has run
C29_Witness ==
  /\ pump_level > 0 /\ Used = {} /\ Starts = {}
  /\ tick_at > SEC
  /\ session_time_remaining > 0 /\ service_was_up

\* C30: at every point of a save, a write failure part-way through included,
\* the state file holds the complete previous snapshot or the complete new one;
\* a failed save leaves the state in memory unchanged and removes its temporary
\* file, so that no temporary file is left when save_state has returned.
C30_SaveIsAtomic ==
  /\ [](file_intact)
  /\ [][disk' = disk \/ disk' = NewSnapshot]_vars
  /\ [][UNCHANGED <<session_time_remaining, banked_time, latch_active, latch_reason,
                    latch_end_time>>]_vars
  /\ [](save_pc = "idle" => temp_files = 0)

\* C31: while wearer_secret is still the default 'changeme', the wearer command
\* binds no wearer, whatever secret the caller offers: wearer_id stays as it was.
C31_DefaultSecretBindsNoWearer ==
  [][\A user \in Users, dm \in BOOLEAN, secret \in Secrets :
       (Issue(Wearer(user, dm, secret)) /\ config.wearer_secret = Changeme)
       => config'.wearer_id = config.wearer_id]_vars

\* C33: session reset sets session_time_remaining to the default_session_time
\* that the persisted snapshot holds.
C33_ResetRestoresPersistedDefault ==
  [][Issue(SessionReset) => session_time_remaining' = disk.default_session_time]_vars

\* C34: for every reply shape of getPumpState (numeric text, {is_on}, {value})
\* the status command reports the pump ON exactly when the reported level is
\* not zero, and so agrees with get_api_pump_state on that reply.
C34_StatusReportsLevel ==
  [][\A i \in 1..Len(pending), format \in GetFormats :
       StatusReply(i, GetPumpStateReply(format, pump_level)) =>
         /\ (pump_status' = "ON") <=> (pump_level # 0)
         /\ (pump_status' = "ON") <=>
              (get_api_pump_state(api_request(GetPumpStateReply(format, pump_level)))
                 = "True")]_vars

\* C35: a caller of setPumpState counts the call a success exactly when the
\* device answered with status 200, whatever the body; any other status, a
\* timeout or a connection error is a failure value.
C35_SuccessIffStatus200 ==
  [][\A i \in 1..Len(pending), reply \in SetPumpStateReplies :
       (ManualReply(i, reply) /\ ~last_pump_time) =>
         (last_pump_time' <=> reply.status = 200)]_vars

\* C32: a reboot issued while a pump task is live does not leave the actuator
\* on: before the process is replaced the device is told level 0 and the run's
\* session debit is settled, as the task's cleanup would have done.
C32_RebootStopsThePump ==
  [][\A t \in TaskIds : (Issue(Reboot) /\ Live(t) /\ tasks[t].pc # "new") =>
       /\ pump_level' = 0
       /\ session_time_remaining' =
            update_session_time(0 - (IF tasks[t].mode = "timed"
                                     THEN IntSeconds(now - tasks[t].start_time)
                                     ELSE tasks[t].decremented_session))]_vars

\* C36: an auto_unlatch timer releases only the latch engagement that created
\* it: a timer whose latch on was followed by another latch on (timed or
\* indefinite, also one in flight at the same time) never releases the latch.
C36_TimerReleasesOwnLatchOnly ==
  [][\A k \in TimerIds : (TimerFire(k) /\ timers[k].superseded) =>
       latch_active' = latch_active]_vars

\* C37: once an inflate has extended a live task, the pump stays on under that
\* task until the extended end time unless the task is interrupted or
\* cancelled, also when the inflate arrives while the task waits in its cleanup:
\* a task that was not interrupted completes its cleanup no earlier than the end
\* time on record.
C37_ExtensionIsHonoured ==
  [][\A t \in TaskIds, ok \in BOOLEAN :
       (/\ CleanupReply(t, ok)
        /\ t = pump_task
        /\ tasks[t].interruption_reason = "" /\ ~tasks[t].raised
        /\ pump_task_end_time # None)
       => now >= pump_task_end_time]_vars

\* C38: while a pump task is in its loop, the last level the device took is
\* above zero, for every stored pump_intensity in [0, 1] and every interleaving
\* of latch commands between two polls.
C38_LoopMeansPumpOn ==
  \A t \in TaskIds : tasks[t].pc = "sleep" => pump_level > 0

\* the pump is on with nothing in progress: every task that ran has completed
\* its cleanup, and no handler or request is pending
RestingOn ==
  /\ pump_level > 0
  /\ pending = <<>>
  /\ \A t \in TaskIds : tasks[t].pc \in {"none", "done"}

\* C39: when a task's cleanup failed to deliver level 0, the device is still
\* told level 0 once the link is reachable again: with the service up for good,
\* the system does not rest forever with the pump on and no task live.
C39_PumpOffAfterFailedCleanup == <>[]service_was_up => []<>(~RestingOn)

\* C40: every pump task that was created ends with its cleanup run to the end,
\* which clears pump_task, also when another task's cleanup cleared
\* pump_task_end_time underneath it.
C40_EveryTaskCompletesCleanup ==
  \A t \in TaskIds : (tasks[t].pc = "new") ~> (tasks[t].pc \in {"done", "failed"})

====
